---- MODULE Spec2Model ----
(***************************************************************************)
(* Model of "demo/3 - training a CLIP field.ipynb": the zero-shot          *)
(* evaluator, one training epoch (train), the checkpointer (save) and the  *)
(* driver loop of the last code cell.                                      *)
(*                                                                         *)
(* Floating point values are modelled by integers: mask entries 0.0/1.0/   *)
(* 2.0 by 0/1/2, losses by small positive integers, the raw temperature in *)
(* hundredths (ln 100 = 4.605... is 460).  The field model, the classifier *)
(* and the optimizer are external: what they return is drawn from small    *)
(* sets of finite numbers (no NaN).  A tensor whose dtype decides the      *)
(* behaviour carries it.                                                   *)
(***************************************************************************)
EXTENDS Integers, Sequences, FiniteSets

VARIABLES
    dataset,                    \* training_data: sequence of [label, img_idx]
    batch_size,                 \* the loader's batch size
    metric_calculators,         \* group name -> set of metric names
    updates,                    \* metric name -> samples fed since the last reset
    pc,                         \* position of the driver / of train
    error,                      \* the exception that ended the run, or "none"
    epoch,                      \* the driver's epoch counter
    remaining,                  \* shuffled indices the loader has not yielded yet
    image_label_index,          \* the current batch's img_idx and label columns
    language_label_index,
    image_label_mask,           \* the masks built for the current batch
    language_label_mask,
    masked_labels,              \* the targets handed to F.cross_entropy
    contrastive_loss_labels,    \* the losses of the current batch
    contrastive_loss_images,
    classification_loss,
    contrastive_loss,           \* the scalar backward() ran on
    temperature,                \* labelling_model.temperature.data
    opt_steps,                  \* optimizer steps applied to the model so far
    label_loss,                 \* train's running totals
    image_loss,
    total_classification_loss,
    total_loss,
    total_samples,
    to_log,                     \* the last report handed to wandb.log
    log_count,                  \* wandb.log calls so far
    train_calls,                \* train calls that returned so far
    checkpoint                  \* content of implicit_scene_label_model_latest.pt

vars == <<dataset, batch_size, metric_calculators, updates, pc, error, epoch,
          remaining, image_label_index, language_label_index,
                   image_label_mask, language_label_mask, masked_labels,
          contrastive_loss_labels, contrastive_loss_images, classification_loss,
          contrastive_loss, temperature, opt_steps, label_loss, image_loss,
          total_classification_loss, total_loss, total_samples, to_log,
          log_count, train_calls, checkpoint>>

----------------------------------------------------------------------------
(* Bounds *)

MaxData == 2
total_label_classes == 1

(* Program constants *)

UNLABELED == -1
IMAGE_TO_LABEL_CLIP_LOSS_SCALE == 1
LABEL_TO_IMAGE_LOSS_SCALE == 1
SAVE_EVERY == 5
NUM_EPOCHS == 5
LN100 == 460

(* Inputs *)

Labels == (-2)..total_label_classes
ImgIds == {0, 1}
Samples == [label : Labels, img_idx : ImgIds]
LossValues == {1, 2}
CrossEntropyValues == {3}
\* The field model is external: a fresh model's temperature is taken to be
\* ln(1/0.07) = 2.66, below the bound.  Every optimizer step may move it to
\* either side of the bound.
InitialTemperature == LN100 - 194
StepTemperatures == {LN100 - 194, LN100 + 40}

SemanticMetrics ==
    {"semantic_accuracy_micro", "semantic_accuracy_macro", "semantic_accuracy_weighted"}

train_metric_calculators == [g \in {"semantic"} |-> SemanticMetrics]

OtherMetricCalculators ==
    [g \in {"semantic", "visual"} |->
        IF g = "semantic" THEN {"semantic_accuracy_micro"} ELSE {"visual_accuracy_micro"}]

MetricNames(mc) == UNION {mc[g] : g \in DOMAIN mc}

----------------------------------------------------------------------------
(* Tensor helpers *)

RECURSIVE SelectMasked(_, _)
SelectMasked(s, m) ==
    IF s = <<>> THEN <<>>
    ELSE (IF Head(m) THEN <<Head(s)>> ELSE <<>>) \o SelectMasked(Tail(s), Tail(m))

Float(b) == IF b THEN 1 ELSE 0

\* Mutant: the identity matrix is not added.
EyeOmitted(i, j) == 0

Eye(i, j) == IF i = j THEN 1 ELSE 0

\* Mutant: the comparison is == instead of !=.
EqualInstead(a, b) == a = b

\* Mutant: two unlabeled samples never count as the same label.
NotEqualOrUnlabeled(a, b) == a # b \/ a = UNLABELED

NotEqual(a, b) == a # b

PairwiseMask(index) ==
    [i \in DOMAIN index |->
        [j \in DOMAIN index |-> Float(NotEqual(index[i], index[j])) + Eye(i, j)]]

----------------------------------------------------------------------------
(* zero_shot_eval *)

SemsegMask(labels) ==
    [dtype |-> "bool",
     data  |-> [i \in DOMAIN labels |->
                   labels[i] # UNLABELED /\ labels[i] < total_label_classes]]

Any(t) == \E i \in DOMAIN t.data : t.data[i]

ZerosLike(t) ==
    [dtype |-> t.dtype,
     data  |-> [i \in DOMAIN t.data |-> IF t.dtype = "bool" THEN FALSE ELSE 0]]

\* Tensor.mean accepts floating point tensors only: on any other dtype it
\* raises RuntimeError ("could not infer output dtype").
Mean(t) ==
    IF t.dtype = "float"
    THEN [raised |-> FALSE, error |-> "none", value |-> 0]
    ELSE [raised |-> TRUE, error |-> "RuntimeError", value |-> 0]

\* F.cross_entropy takes class indices as targets: a target outside
\* 0..C-1 (and different from ignore_index = -100) is an error.
CrossEntropy(targets, value) ==
    IF \A i \in DOMAIN targets : targets[i] \in 0..(total_label_classes - 1)
    THEN [raised |-> FALSE, error |-> "none", value |-> value]
    ELSE [raised |-> TRUE, error |-> "IndexError", value |-> 0]

\* Mutant: every batch starts the accumulator afresh.
AccumulateBatchOnly(fed, targets) == Len(targets)

\* A metric's forward adds the batch to what it has accumulated.
Accumulate(fed, targets) == fed + Len(targets)

\* The result of one call: the loss or the exception, the targets handed to
\* cross-entropy, and the metric accumulators after the call.  ce is what
\* cross-entropy evaluates to on the classifier's probabilities.
zero_shot_eval(labels, mc, upd, ce) ==
    LET semseg_mask == SemsegMask(labels) IN
    IF ~Any(semseg_mask)
    THEN LET m == Mean(ZerosLike(semseg_mask)) IN
         [raised |-> m.raised, error |-> m.error, loss |-> m.value,
          targets |-> <<>>, updates |-> upd]
    ELSE LET targets == SelectMasked(labels, semseg_mask.data)
             c == CrossEntropy(targets, ce)
         IN  [raised |-> c.raised, error |-> c.error, loss |-> c.value,
              targets |-> targets,
              updates |->
                 IF ~c.raised /\ "semantic" \in DOMAIN mc /\ mc["semantic"] # {}
                 THEN [n \in DOMAIN upd |->
                          IF n \in mc["semantic"]
                          THEN Accumulate(upd[n], targets) ELSE upd[n]]
                 ELSE upd]

----------------------------------------------------------------------------
(* train *)

\* torch.exp is strictly increasing: its value is kept as the term exp(x).
Exp(x) == [exp |-> x]

NoReport == [contrastive_loss_labels |-> 0, contrastive_loss_images |-> 0,
             semseg_loss |-> 0, loss_sum |-> 0, labelling_temp |-> Exp(0),
             metrics |-> <<>>]

NoCheckpoint == [model |-> <<>>, optim |-> <<>>, epoch |-> -1]

\* metric.reset()
Reset(fed) == 0

\* metric.compute(): an accuracy accumulator that was never updated has no
\* input mode yet and raises RuntimeError; otherwise the value is the
\* classifier's accuracy, kept as the term "computed".
MetricCompute(fed) ==
    IF fed = 0
    THEN [raised |-> TRUE, error |-> "RuntimeError", value |-> "none"]
    ELSE [raised |-> FALSE, error |-> "none", value |-> "computed"]

\* Mutant: the handler is for another exception class.
CaughtValueErrorOnly(err) == err = "ValueError"

\* except RuntimeError
Caught(err) == err = "RuntimeError"

\* The order in which train walks the metric dictionaries.
MetricOrder(mc) ==
    LET Configured(n) == n \in MetricNames(mc)
    IN  SelectSeq(<<"visual_accuracy_micro", "semantic_accuracy_micro",
                    "semantic_accuracy_macro", "semantic_accuracy_weighted">>,
                  Configured)

\* The loop over the metrics at the end of train: each is read (0.0 when
\* the read raises an exception the handler catches) and then reset; an
\* exception the handler does not catch ends the loop there.
RECURSIVE ReadMetrics(_, _, _)
ReadMetrics(order, upd, logged) ==
    IF order = <<>>
    THEN [raised |-> FALSE, error |-> "none", updates |-> upd, metrics |-> logged]
    ELSE LET n == Head(order)
             c == MetricCompute(upd[n])
         IN  IF c.raised /\ ~Caught(c.error)
             THEN [raised |-> TRUE, error |-> c.error, updates |-> upd,
                   metrics |-> logged]
             ELSE ReadMetrics(
                      Tail(order),
                      [upd EXCEPT ![n] = Reset(@)],
                      [m \in DOMAIN logged \cup {n} |->
                          IF m = n THEN (IF c.raised THEN "0.0" ELSE c.value)
                          ELSE logged[m]])

\* Mutant: the bound is applied as a minimum.
ClampMin(x, max) == IF x < max THEN max ELSE x

Clamp(x, max) == IF x > max THEN max ELSE x

\* Mutant: the classification loss is optimized too.
WeightedSumWithClassification(images, labels, classification) ==
    IMAGE_TO_LABEL_CLIP_LOSS_SCALE * images + LABEL_TO_IMAGE_LOSS_SCALE * labels
        + classification

WeightedSum(images, labels, classification) ==
    IMAGE_TO_LABEL_CLIP_LOSS_SCALE * images + LABEL_TO_IMAGE_LOSS_SCALE * labels

Quotient(a, b) == (a * 1000) \div b

Min(a, b) == IF a < b THEN a ELSE b

Shuffles(n) ==
    {f \in [1..n -> 1..n] : \A i, j \in 1..n : i # j => f[i] # f[j]}

\* train, up to the first batch: the totals are zeroed and the loader
\* (shuffle=True) fixes the order of this epoch.
TrainPrologue ==
    /\ total_loss' = 0
    /\ label_loss' = 0
    /\ image_loss' = 0
    /\ classification_loss' = 0
    /\ total_samples' = 0
    /\ total_classification_loss' = 0
    /\ \E order \in Shuffles(Len(dataset)) : remaining' = order
    /\ pc' = "batches"

\* One pass of the loop body over the next batch of the loader.
TrainBatch ==
    /\ pc = "batches"
    /\ remaining # <<>>
    /\ LET n     == Min(batch_size, Len(remaining))
           batch == SubSeq(remaining, 1, n)
       IN
       /\ remaining' = SubSeq(remaining, n + 1, Len(remaining))
       /\ image_label_index' = [i \in 1..n |-> dataset[batch[i]].img_idx]
       /\ language_label_index' = [i \in 1..n |-> dataset[batch[i]].label]
       /\ image_label_mask' = PairwiseMask(image_label_index')
       /\ language_label_mask' = PairwiseMask(language_label_index')
       /\ \E labels \in LossValues, images \in LossValues,
             ce \in CrossEntropyValues, stepped \in StepTemperatures :
            LET ev == zero_shot_eval(language_label_index', metric_calculators,
                                     updates, ce)
            IN
            /\ contrastive_loss_labels' = labels
            /\ contrastive_loss_images' = images
            /\ masked_labels' = ev.targets
            /\ updates' = ev.updates
            /\ IF ev.raised
               THEN /\ pc' = "raised"
                    /\ error' = ev.error
                    /\ UNCHANGED <<classification_loss, contrastive_loss,
                                   temperature, opt_steps, label_loss, image_loss,
                                   total_classification_loss, total_loss,
                                   total_samples>>
               ELSE /\ classification_loss' = ev.loss
                    /\ contrastive_loss' = WeightedSum(images, labels, ev.loss)
                    /\ opt_steps' = opt_steps + 1
                    /\ temperature' = Clamp(stepped, LN100)
                    /\ label_loss' = label_loss + labels
                    /\ image_loss' = image_loss + images
                    /\ total_classification_loss' =
                           total_classification_loss + ev.loss
                    /\ total_loss' = total_loss + contrastive_loss'
                    /\ total_samples' = total_samples + 1
                    /\ UNCHANGED <<pc, error>>
    /\ UNCHANGED <<dataset, batch_size, metric_calculators, epoch, to_log,
                   log_count, train_calls, checkpoint>>

\* train after the last batch: the averages, the metrics read and reset, the
\* report.
TrainEpilogue ==
    /\ pc = "batches"
    /\ remaining = <<>>
    /\ LET read == ReadMetrics(MetricOrder(metric_calculators), updates, <<>>) IN
       IF total_samples = 0
       THEN /\ pc' = "raised"
            /\ error' = "ZeroDivisionError"
            /\ UNCHANGED <<updates, to_log, log_count, train_calls>>
       ELSE IF read.raised
       THEN /\ pc' = "raised"
            /\ error' = read.error
            /\ updates' = read.updates
            /\ UNCHANGED <<to_log, log_count, train_calls>>
       ELSE /\ to_log' =
                 [contrastive_loss_labels |-> Quotient(label_loss, total_samples),
                  contrastive_loss_images |-> Quotient(image_loss, total_samples),
                  semseg_loss |-> Quotient(total_classification_loss, total_samples),
                  loss_sum |-> Quotient(total_loss, total_samples),
                  labelling_temp |-> Exp(temperature),
                  metrics |-> read.metrics]
            /\ updates' = read.updates
            /\ log_count' = log_count + 1
            /\ train_calls' = train_calls + 1
            /\ pc' = "returned"
            /\ UNCHANGED error
    /\ UNCHANGED <<dataset, batch_size, metric_calculators, epoch, remaining,
                   image_label_index, language_label_index,
                   image_label_mask, language_label_mask, masked_labels,
                   contrastive_loss_labels, contrastive_loss_images,
                   classification_loss, contrastive_loss, temperature, opt_steps,
                   label_loss, image_loss, total_classification_loss, total_loss,
                   total_samples, checkpoint>>

----------------------------------------------------------------------------
(* save and the driver loop *)

\* Mutant: the interval is ignored.
ShouldSaveAlways(e) == TRUE

ShouldSave(e) == e % SAVE_EVERY = 0

save(model_state, optim_state, e) ==
    [model |-> model_state, optim |-> optim_state, epoch |-> e]

\* while epoch <= NUM_EPOCHS: train(...)
LoopEnter ==
    /\ pc = "while"
    /\ epoch <= NUM_EPOCHS
    /\ TrainPrologue
    /\ UNCHANGED <<dataset, batch_size, metric_calculators, updates, error, epoch,
                   image_label_index, language_label_index,
                   image_label_mask, language_label_mask, masked_labels,
                   contrastive_loss_labels, contrastive_loss_images,
                   contrastive_loss, temperature, opt_steps, to_log, log_count,
                   train_calls, checkpoint>>

LoopExit ==
    /\ pc = "while"
    /\ ~(epoch <= NUM_EPOCHS)
    /\ pc' = "done"
    /\ UNCHANGED <<dataset, batch_size, metric_calculators, updates, error, epoch,
                   remaining, image_label_index, language_label_index,
                   image_label_mask, language_label_mask,
                   masked_labels, contrastive_loss_labels,
                   contrastive_loss_images, classification_loss,
                   contrastive_loss, temperature, opt_steps, label_loss,
                   image_loss, total_classification_loss, total_loss,
                   total_samples, to_log, log_count, train_calls, checkpoint>>

\* train has returned: its local variables are gone when the driver resumes
\* with epoch += 1.
Increment ==
    /\ pc = "returned"
    /\ epoch' = epoch + 1
    /\ pc' = "if_save"
    /\ image_label_index' = <<>>
    /\ language_label_index' = <<>>
    /\ image_label_mask' = <<>>
    /\ language_label_mask' = <<>>
    /\ masked_labels' = <<>>
    /\ contrastive_loss_labels' = 0
    /\ contrastive_loss_images' = 0
    /\ classification_loss' = 0
    /\ contrastive_loss' = 0
    /\ label_loss' = 0
    /\ image_loss' = 0
    /\ total_classification_loss' = 0
    /\ total_loss' = 0
    /\ total_samples' = 0
    /\ to_log' = NoReport
    /\ UNCHANGED <<dataset, batch_size, metric_calculators, updates, error,
                   remaining, temperature, opt_steps, log_count, train_calls,
                   checkpoint>>

\* if epoch % SAVE_EVERY == 0: save(label_model, optim, epoch)
Save ==
    /\ pc = "if_save"
    /\ ShouldSave(epoch)
    /\ checkpoint' = save([steps |-> opt_steps, temperature |-> temperature],
                          [steps |-> opt_steps], epoch)
    /\ pc' = "while"
    /\ UNCHANGED <<dataset, batch_size, metric_calculators, updates, error, epoch,
                   remaining, image_label_index, language_label_index,
                   image_label_mask, language_label_mask,
                   masked_labels, contrastive_loss_labels,
                   contrastive_loss_images, classification_loss,
                   contrastive_loss, temperature, opt_steps, label_loss,
                   image_loss, total_classification_loss, total_loss,
                   total_samples, to_log, log_count, train_calls>>

SkipSave ==
    /\ pc = "if_save"
    /\ ~ShouldSave(epoch)
    /\ pc' = "while"
    /\ UNCHANGED <<dataset, batch_size, metric_calculators, updates, error, epoch,
                   remaining, image_label_index, language_label_index,
                   image_label_mask, language_label_mask,
                   masked_labels, contrastive_loss_labels,
                   contrastive_loss_images, classification_loss,
                   contrastive_loss, temperature, opt_steps, label_loss,
                   image_loss, total_classification_loss, total_loss,
                   total_samples, to_log, log_count, train_calls, checkpoint>>

----------------------------------------------------------------------------
(* Specifications *)

InitRest ==
    /\ updates = [n \in MetricNames(metric_calculators) |-> 0]
    /\ pc = "while"
    /\ error = "none"
    /\ epoch = 0
    /\ remaining = <<>>
    /\ image_label_index = <<>>
    /\ language_label_index = <<>>
    /\ image_label_mask = <<>>
    /\ language_label_mask = <<>>
    /\ masked_labels = <<>>
    /\ contrastive_loss_labels = 0
    /\ contrastive_loss_images = 0
    /\ classification_loss = 0
    /\ contrastive_loss = 0
    /\ temperature = InitialTemperature
    /\ opt_steps = 0
    /\ label_loss = 0
    /\ image_loss = 0
    /\ total_classification_loss = 0
    /\ total_loss = 0
    /\ total_samples = 0
    /\ to_log = NoReport
    /\ log_count = 0
    /\ train_calls = 0
    /\ checkpoint = NoCheckpoint

\* The notebook: the loader over a non-empty dataset, the three accuracy
\* metrics of the "semantic" group.
Init ==
    /\ dataset \in UNION {[1..n -> Samples] : n \in 1..MaxData}
    /\ batch_size \in 1..MaxData
    /\ metric_calculators = train_metric_calculators
    /\ InitRest

Next ==
    \/ LoopEnter
    \/ TrainBatch
    \/ TrainEpilogue
    \/ Increment
    \/ Save
    \/ SkipSave
    \/ LoopExit

Spec == Init /\ [][Next]_vars

\* One call of train on any loader and any metric dictionary.
InitTrain ==
    /\ dataset \in UNION {[1..n -> Samples] : n \in 0..MaxData}
    /\ batch_size \in 1..MaxData
    /\ metric_calculators \in {train_metric_calculators, OtherMetricCalculators}
    /\ InitRest

NextTrain ==
    \/ LoopEnter
    \/ TrainBatch
    \/ TrainEpilogue

SpecTrain == InitTrain /\ [][NextTrain]_vars

----------------------------------------------------------------------------
(* Properties *)

Symmetric(mask) == \A i, j \in DOMAIN mask : mask[i][j] = mask[j][i]

UnitDiagonal(mask) == \A i \in DOMAIN mask : mask[i][i] = 1

\* A label the specification calls valid: not the sentinel and inside the
\* class vocabulary.
ValidLabel(l) == l # UNLABELED /\ l \in 0..(total_label_classes - 1)

AllSame(index) == \A i, j \in DOMAIN index : index[i] = index[j]

\* The step is one pass of train's loop body.
BatchStep == pc = "batches" /\ remaining' # remaining

\* C1: both pairwise masks built in train are symmetric and have 1.0 in
\* every diagonal entry, whatever the label identifiers (sentinel included).
C1_MasksSymmetricUnitDiagonal ==
    /\ Symmetric(image_label_mask) /\ UnitDiagonal(image_label_mask)
    /\ Symmetric(language_label_mask) /\ UnitDiagonal(language_label_mask)

C1_Witness ==
    /\ Len(language_label_mask) = 2
    /\ \E i \in DOMAIN language_label_index : language_label_index[i] = UNLABELED
    /\ \E i \in DOMAIN language_label_index : language_label_index[i] # UNLABELED
    /\ language_label_mask[1][2] = 1

\* C2: off the diagonal, a mask entry is 1.0 for two samples with different
\* identifiers in that branch and 0.0 for two samples with the same one, two
\* unlabeled samples included.
C2_OffDiagonalIsDifference ==
    /\ DOMAIN image_label_mask = DOMAIN image_label_index
    /\ DOMAIN language_label_mask = DOMAIN language_label_index
    /\ \A i, j \in DOMAIN image_label_index :
          i # j => image_label_mask[i][j] =
                      (IF image_label_index[i] # image_label_index[j] THEN 1 ELSE 0)
    /\ \A i, j \in DOMAIN language_label_index :
          i # j => language_label_mask[i][j] =
                      (IF language_label_index[i] # language_label_index[j]
                       THEN 1 ELSE 0)

C2_Witness ==
    /\ Len(language_label_index) = 2
    /\ language_label_index[1] = UNLABELED
    /\ language_label_index[2] = UNLABELED
    /\ language_label_mask[1][2] = 0
    /\ image_label_index[1] # image_label_index[2]
    /\ image_label_mask[1][2] = 1

\* C3 as claimed: a branch whose samples all share one identifier has a mask
\* that is 1.0 in every entry.
C3_AllSameMaskAllOnes ==
    /\ (language_label_index # <<>> /\ AllSame(language_label_index)) =>
          \A i, j \in DOMAIN language_label_mask : language_label_mask[i][j] = 1
    /\ (image_label_index # <<>> /\ AllSame(image_label_index)) =>
          \A i, j \in DOMAIN image_label_mask : image_label_mask[i][j] = 1

\* C3 amended: a branch whose samples all share one identifier has the
\* identity matrix as its mask: 1.0 on the diagonal, 0.0 off it.
C3_AllSameMaskIsIdentity ==
    /\ (language_label_index # <<>> /\ AllSame(language_label_index)) =>
          \A i, j \in DOMAIN language_label_mask :
             language_label_mask[i][j] = (IF i = j THEN 1 ELSE 0)
    /\ (image_label_index # <<>> /\ AllSame(image_label_index)) =>
          \A i, j \in DOMAIN image_label_mask :
             image_label_mask[i][j] = (IF i = j THEN 1 ELSE 0)

C3_Witness ==
    /\ Len(language_label_index) = 2
    /\ AllSame(language_label_index)
    /\ language_label_mask[1][2] = 0
    /\ language_label_mask[2][1] = 0
    /\ language_label_mask[1][1] = 1
    /\ language_label_mask[2][2] = 1

\* C4: a batch without any valid label makes zero_shot_eval return the loss
\* 0.0 without raising, and leaves every metric accumulator as it was.
C4_NoValidLabelZeroLoss ==
    [][(BatchStep /\ \A i \in DOMAIN language_label_index' :
                        \/ language_label_index'[i] = UNLABELED
                        \/ language_label_index'[i] >= total_label_classes)
          => /\ error' = "none"
             /\ pc' # "raised"
             /\ classification_loss' = 0
             /\ updates' = updates]_vars

\* C5: the samples handed to cross-entropy are exactly those whose label is
\* not the sentinel and lies in 0..total_label_classes-1, so no label outside
\* that range is used as a class index.
C5_OnlyValidLabelsAreTargets ==
    /\ masked_labels = SelectSeq(language_label_index, ValidLabel)
    /\ \A i \in DOMAIN masked_labels :
          masked_labels[i] \in 0..(total_label_classes - 1)

\* C6: once an optimizer step has run the raw temperature is at most ln(100),
\* and so is the temperature of every epoch-end report.
C6_TemperatureClamped ==
    /\ opt_steps > 0 => temperature <= LN100
    /\ to_log # NoReport => to_log.labelling_temp.exp <= LN100

C6_Witness ==
    /\ opt_steps > 0
    /\ temperature = LN100
    /\ to_log # NoReport
    /\ to_log.labelling_temp = Exp(LN100)

\* C7: every optimizer step runs on the scalar
\* image ratio * visual loss + label ratio * semantic loss; the
\* classification loss is no term of it and is added to the semseg total only.
C7_OnlyContrastiveLossesOptimized ==
    [][opt_steps' # opt_steps =>
          /\ contrastive_loss' =
                IMAGE_TO_LABEL_CLIP_LOSS_SCALE * contrastive_loss_images'
                + LABEL_TO_IMAGE_LOSS_SCALE * contrastive_loss_labels'
          /\ total_loss' = total_loss + contrastive_loss'
          /\ total_classification_loss' =
                total_classification_loss + classification_loss']_vars

C7_Witness ==
    /\ opt_steps > 0
    /\ classification_loss > 0
    /\ contrastive_loss_images # contrastive_loss_labels
    /\ contrastive_loss = contrastive_loss_images + contrastive_loss_labels
    /\ total_classification_loss >= classification_loss

ValidCount ==
    Cardinality({i \in DOMAIN dataset : ValidLabel(dataset[i].label)})

ConfiguredSemantic ==
    IF "semantic" \in DOMAIN metric_calculators
    THEN metric_calculators["semantic"] ELSE {}

\* C8: when train reads the metrics at the end of the epoch, every semantic
\* accumulator has been fed as many samples as the dataset has valid labels;
\* no batch makes an accumulator lose samples; every accumulator is empty
\* when train has returned.
C8_FedCountIsValidCount ==
    /\ [] ((pc = "batches" /\ remaining = <<>>) =>
             \A n \in ConfiguredSemantic : updates[n] = ValidCount)
    /\ [] (pc = "returned" => \A n \in DOMAIN updates : updates[n] = 0)
    /\ [][BatchStep => \A n \in DOMAIN updates : updates'[n] >= updates[n]]_vars

C8_Witness ==
    /\ pc = "batches"
    /\ remaining = <<>>
    /\ total_samples = 1
    /\ \E i \in DOMAIN dataset : ~ValidLabel(dataset[i].label)
    /\ ConfiguredSemantic # {}
    /\ \A n \in ConfiguredSemantic : updates[n] = 1

\* C9: the checkpoint is written only from the driver's position after
\* epoch += 1, with no batch of an epoch pending, and only when
\* epoch mod SAVE_EVERY = 0; the epoch written is the number of train calls
\* completed.
C9_SaveOnlyAtInterval ==
    [][checkpoint' # checkpoint =>
          /\ pc = "if_save"
          /\ remaining = <<>>
          /\ epoch % SAVE_EVERY = 0
          /\ checkpoint'.epoch = epoch
          /\ checkpoint'.epoch = train_calls]_vars

C9_Witness ==
    /\ checkpoint # NoCheckpoint
    /\ checkpoint.epoch = SAVE_EVERY
    /\ train_calls = SAVE_EVERY

\* C10: when the driver loop has ended, train has been called exactly
\* NUM_EPOCHS times.
C10_TrainCalledNumEpochsTimes == pc = "done" => train_calls = NUM_EPOCHS

\* C11: when the driver loop has ended, the checkpoint holds the model and
\* optimizer state the last train call produced: no optimizer step came after
\* the last save.
C11_FinalModelIsSaved ==
    pc = "done" =>
        /\ checkpoint # NoCheckpoint
        /\ checkpoint.model = [steps |-> opt_steps, temperature |-> temperature]
        /\ checkpoint.optim = [steps |-> opt_steps]

\* The step is the end of train on a loader that yielded a batch.
EpilogueStep == pc = "batches" /\ remaining = <<>> /\ total_samples > 0 /\ pc' # pc

\* C12: at the end of train an accumulator that received no samples (its
\* read raises) is reported as 0.0 and still reset, the other accumulators
\* are read and reset as well, and the report is emitted: train returns.
C12_EmptyMetricReportedAsZero ==
    [][EpilogueStep =>
          /\ pc' = "returned"
          /\ log_count' = log_count + 1
          /\ DOMAIN to_log'.metrics = DOMAIN updates
          /\ \A n \in DOMAIN updates :
                /\ updates'[n] = 0
                /\ updates[n] = 0 => to_log'.metrics[n] = "0.0"
                /\ updates[n] > 0 => to_log'.metrics[n] = "computed"]_vars

C12_Witness ==
    /\ pc = "returned"
    /\ log_count = 1
    /\ DOMAIN to_log.metrics = {"visual_accuracy_micro", "semantic_accuracy_micro"}
    /\ to_log.metrics["visual_accuracy_micro"] = "0.0"
    /\ to_log.metrics["semantic_accuracy_micro"] = "computed"
    /\ \A n \in DOMAIN updates : updates[n] = 0

\* train has ended, by returning or by an exception.
TrainEnded == pc \in {"returned", "raised"}

\* C13: every call of train emits exactly one report, after the last batch,
\* and each averaged loss in it is that loss's total over the batches divided
\* by the number of batches.
C13_OneReportOfAveragesPerCall ==
    /\ pc = "batches" => log_count = 0
    /\ TrainEnded =>
          /\ log_count = 1
          /\ remaining = <<>>
          /\ total_samples > 0
          /\ to_log.contrastive_loss_labels * total_samples = label_loss * 1000
          /\ to_log.contrastive_loss_images * total_samples = image_loss * 1000
          /\ to_log.semseg_loss * total_samples = total_classification_loss * 1000
          /\ to_log.loss_sum * total_samples = total_loss * 1000

====
